---- MODULE Spec2Model ----
(***************************************************************************)
(* PulseSensor on the Cheap Yellow Display: the two sketches of the        *)
(* repository, the dashboard sketch (src/unnamed/part_000) and the         *)
(* standalone sketch (src/PulseSensor_CYD.ino), as one state machine.      *)
(*                                                                         *)
(* `sketch` says which program runs and `pc` is the position inside its    *)
(* loop().  `clock` is what millis() returns; it advances between two      *)
(* iterations of loop() (action Tick), and the steps of one iteration read *)
(* the same value.  `feed` is the environment of the run: the delays the   *)
(* iterations take, the samples the sensor delivers and the beat events it *)
(* reports.  millis() stays far below its wrap-around in every run.        *)
(***************************************************************************)
EXTENDS Integers, Sequences, FiniteSets, TLC

VARIABLES
    sketch,              \* "dashboard" (part_000) or "standalone" (.ino)
    feed,                \* the environment of this run, one of Feeds
    sensorOk,            \* what pulseSensor.begin() returned in setup()
    loops,               \* iterations of loop() started so far
    pc,                  \* position inside loop(); "idle" between iterations
    clock,               \* millis()
    now,                 \* loop()'s local `now` (dashboard)
    currentSignal, currentBPM, currentIBI,
    lastDrawTime, lastBeatTime, lastLedUpdate, lastDecay,
    beatFlashActive, fingerPresent,
    ledBrightness,       \* dashboard LED state
    ledFadeValue,        \* standalone LED state
    ledDuty,             \* duty last written to the red, green, blue channel
    waveformBuffer,      \* index 0..SCREEN_WIDTH-1
    waveformX,           \* dashboard write cursor
    waveformIndex,       \* standalone write cursor
    minSignal, maxSignal,
    lastDisplayedBPM, lastDisplayedSignal, lastDisplayedIBI,
    shown,               \* per numeric field, <<v>> when the display shows v, <<>> when blank
    redrawn,             \* the fields the last step drew
    scaleRange,          \* divisor the last drawWaveformColumn scaled with
    writeCount,          \* per buffer index, the number of writes so far
    beat,                \* what sawStartOfBeat() returned in this iteration
    beatCount,           \* beat events handled so far
    resetsSinceBeat,     \* timeout resets since the last beat event
    printed,             \* per numeric field, the text the display shows
    records,             \* status records written to Serial so far
    lastLine,            \* the line written to Serial last
    fadeTicks,           \* fade steps that lowered the LED since the last beat event
    reads,               \* buffer indices the last drawWaveformColumn read
    painted              \* rows the last drawWaveformColumn painted in waveform colour

run     == <<sketch, feed, sensorOk>>
beatLog == <<beat, beatCount, resetsSinceBeat>>
timers  == <<lastDrawTime, lastBeatTime, lastLedUpdate, lastDecay>>
values  == <<currentSignal, currentBPM, currentIBI>>
led     == <<ledBrightness, ledFadeValue, ledDuty, fadeTicks>>
wave    == <<waveformBuffer, waveformX, waveformIndex, writeCount, scaleRange,
             reads, painted>>
env     == <<minSignal, maxSignal>>
cache   == <<lastDisplayedBPM, lastDisplayedSignal, lastDisplayedIBI>>
display == <<shown, printed>>
serial  == <<records, lastLine>>
vars    == <<run, loops, pc, clock, now, values, timers, beatFlashActive, fingerPresent,
             led, wave, env, cache, display, redrawn, beatLog, serial>>

----------------------------------------------------------------------------
(* Program constants (dashboard sketch unless the name says INO). *)
SCREEN_WIDTH       == 320
WAVEFORM_SPEED     == 5
LED_FADE_SPEED     == 4
LED_MAX_BRIGHTNESS == 255
NO_BEAT_TIMEOUT    == 3000
LED_PERIOD         == 10
DECAY_PERIOD       == 100
DECAY_STEP         == 5
CENTER             == 2048
MIN_RANGE          == 100
FLASH_MS           == 150
SIGNAL_DELTA       == 30
SIGNAL_EVERY       == 10
MIN_INIT           == 4095
MAX_INIT           == 0
CACHE_INIT         == -1
INO_WAVEFORM_SPEED == 20
INO_FADE_STEP      == 8
INO_FLASH_MS       == 100
INO_MIN_CEIL       == 1800
INO_MAX_FLOOR      == 2200
BPM_LOW            == 30
BPM_HIGH           == 220
WAVEFORM_TOP       == 80
WAVEFORM_HEIGHT    == 100
WAVEFORM_BOTTOM    == WAVEFORM_TOP + WAVEFORM_HEIGHT
WAVEFORM_THICKNESS == 4
INO_WAVEFORM_THICKNESS == 3

(* Bounds of the model. *)
MaxTime  == 6600      \* Tick stops once millis() would pass it
MaxLoops == 6         \* iterations of loop() under a free feed

----------------------------------------------------------------------------
(* C arithmetic. *)
Min(a, b) == IF a < b THEN a ELSE b
Max(a, b) == IF a > b THEN a ELSE b
Abs(a)    == IF a < 0 THEN -a ELSE a

\* unsigned long subtraction, as in `now - lastBeatTime`; no timestamp lies
\* after the time it is compared with, so the difference never wraps
Elapsed(t, since) == t - since

\* int division, which truncates toward zero (b > 0)
TruncDiv(a, b) == IF a >= 0 THEN a \div b ELSE -((-a) \div b)

\* the Arduino macro constrain(v, lo, hi)
constrain(v, lo, hi) == IF v < lo THEN lo ELSE IF v > hi THEN hi ELSE v

Indices == 0 .. (SCREEN_WIDTH - 1)

----------------------------------------------------------------------------
(* What the program puts out: the text of a numeric field of the display   *)
(* and a line written to Serial (its format and the values filled in).     *)
Number(v) == [kind |-> "number", value |-> v]
Millis(v) == [kind |-> "number ms", value |-> v]
Dashes    == [kind |-> "--", value |-> 0]
Blank     == [kind |-> "", value |-> 0]
Prompt    == [kind |-> "Place finger on sensor", value |-> 0]

Line(format, args) == [format |-> format, args |-> args]

----------------------------------------------------------------------------
(* The environment.  A free feed draws every input anew in every iteration *)
(* (a beat event or none, any of its samples, any of its delays) and is    *)
(* cut off after MaxLoops iterations.  A stream feed delivers its samples  *)
(* in order, one per iteration, over and over, reports a beat event in the *)
(* iterations listed in beatAt, and runs until MaxTime.  A settling feed   *)
(* is a stream feed that delivers its stream once and the sample c ever    *)
(* after.                                                                  *)
Free(delays, samples, events) ==
    [free |-> TRUE, delays |-> delays, samples |-> samples, stream |-> <<>>,
     events |-> events, beatAt |-> {}]
Stream(delay, stream, events, beatAt) ==
    [free |-> FALSE, delays |-> {delay}, samples |-> {}, stream |-> stream,
     events |-> events, beatAt |-> beatAt]

Settle(delay, stream, c, events, beatAt) ==
    [free |-> FALSE, delays |-> {delay}, samples |-> {c}, stream |-> stream,
     events |-> events, beatAt |-> beatAt]

FeedTimeout == Free({1, 3000}, {1900}, {<<72, 833>>})
FeedBeats   == Free({5}, {1900}, {<<72, 833>>, <<72, 800>>, <<0, 833>>})
FeedSamples == Free({20, 101}, {2040, 4095}, {})
FeedOsc     == Stream(5, <<1900, 2100>>, {}, {})
FeedStep    == Stream(5, <<1031, 1000, 1030>>, {}, {})
FeedSwing   == Stream(5, <<4095, 0, 2048>>, {}, {})
FeedPulse   == Stream(5, <<1900, 2100>>, {<<72, 833>>}, {3, 800})
FeedBand    == Free({5}, {1900}, {<<30, 833>>, <<31, 833>>, <<219, 0>>, <<220, 833>>})

FeedSettleLow  == Settle(5, <<1800, 2300>>, 2000, {}, {})
FeedSettleHigh == Settle(5, <<1800, 2300>>, 2100, {<<72, 833>>}, {3})

SettlingFeeds == {FeedSettleLow, FeedSettleHigh}

Feeds == {FeedTimeout, FeedBeats, FeedSamples, FeedOsc, FeedStep, FeedSwing, FeedPulse,
          FeedBand} \cup SettlingFeeds

\* a settling feed has delivered its stream once iteration k has begun
Settled(k) == ~feed.free /\ feed.samples # {} /\ k > Len(feed.stream)

\* what getLatestSample() may return in this iteration
SamplesNow ==
    IF feed.free \/ Settled(loops) THEN feed.samples
    ELSE {feed.stream[(loops % Len(feed.stream)) + 1]}

\* what sawStartOfBeat() may return in this iteration
MayBeat   == IF feed.free THEN TRUE ELSE loops \in feed.beatAt
MayNotBeat == IF feed.free THEN TRUE ELSE loops \notin feed.beatAt

----------------------------------------------------------------------------
(* Dashboard sketch: the tests and computations of its functions. *)

\* faulty variant: the red duty not inverted
setLEDActiveHigh(brightness) == <<brightness, 255, 255>>

\* setLED(brightness): active low, red only
setLED(brightness) == <<255 - brightness, 255, 255>>

\* flashLED(): the brightness a beat sets
flashLED == LED_MAX_BRIGHTNESS

\* faulty variants: the fade step added instead of subtracted; the fade
\* step without its floor
FadeUp(b)          == Max(b + LED_FADE_SPEED, 0)
FadeStepNoFloor(b) == b - LED_FADE_SPEED

\* faulty variant: the fade step taken in every iteration
LedDueAlways(t) == TRUE

\* updateLED(): the period test and the fade step
LedDue(t)   == Elapsed(t, lastLedUpdate) >= LED_PERIOD
FadeStep(b) == Max(b - LED_FADE_SPEED, 0)

\* faulty variants: without the presence guard; with >= for >
TimedOutUnguarded(t) == Elapsed(t, lastBeatTime) > NO_BEAT_TIMEOUT
TimedOutAtLimit(t)   == fingerPresent /\ Elapsed(t, lastBeatTime) >= NO_BEAT_TIMEOUT

\* checkFingerTimeout(): the presence timeout test
TimedOut(t) == fingerPresent /\ Elapsed(t, lastBeatTime) > NO_BEAT_TIMEOUT

\* faulty variant: the upper bound is never widened
WidenMaxNever(hi, s) == hi

\* faulty variants: the contraction of the lower bound without its clamp;
\* the upper bound never contracted
DecayMinUnclamped(lo) == lo + DECAY_STEP
DecayMaxNever(hi)     == hi

\* updateMinMax(): the decay test, the contraction and the widening
DecayDue(t)     == Elapsed(t, lastDecay) > DECAY_PERIOD
DecayMin(lo)    == Min(lo + DECAY_STEP, CENTER)
DecayMax(hi)    == Max(hi - DECAY_STEP, CENTER)
WidenMin(lo, s) == Min(lo, s)
WidenMax(hi, s) == Max(hi, s)

\* faulty variant: the lower bound widened before the contraction
UpdatedMinWidenFirst(lo, s, decay) ==
    IF decay THEN DecayMin(WidenMin(lo, s)) ELSE WidenMin(lo, s)

\* updateMinMax(): the bounds it leaves, the contraction (when due) first
\* and the widening by the current sample after it
UpdatedMin(lo, s, decay) == WidenMin(IF decay THEN DecayMin(lo) ELSE lo, s)
UpdatedMax(hi, s, decay) == WidenMax(IF decay THEN DecayMax(hi) ELSE hi, s)

\* faulty variant: the span without its floor
RangeNoFloor(lo, hi) == hi - lo

\* drawWaveformColumn(): `range`
Range(lo, hi) == Max(hi - lo, MIN_RANGE)

\* faulty variants: a redraw only when the value rises; only when it
\* falls; >= for >
DiffersOnlyUp(v, cached)        == v > cached
DiffersOnlyDown(v, cached)      == v < cached
SignalChangedAtLimit(s, cached) == Abs(s - cached) >= SIGNAL_DELTA

\* loop(): the redraw tests of the numeric fields
Differs(v, cached)       == v # cached
SignalChanged(s, cached) == Abs(s - cached) > SIGNAL_DELTA

\* faulty variants: the wrap one position late; one position early
AdvanceLate(x)     == IF x + 1 > SCREEN_WIDTH THEN 0 ELSE x + 1
AdvanceSkipLast(x) == IF x + 1 >= SCREEN_WIDTH - 1 THEN 0 ELSE x + 1

\* loop(): the render test and the cursor's advance
RenderDue(t) == Elapsed(t, lastDrawTime) >= WAVEFORM_SPEED
Advance(x)   == IF x + 1 >= SCREEN_WIDTH THEN 0 ELSE x + 1

\* loop(): the end of the beat indicator's flash
FlashOver(t) == beatFlashActive /\ Elapsed(t, lastBeatTime) > FLASH_MS

\* faulty variant: the plausible band with its limits included
drawBPMInclusive(bpm) == IF bpm >= BPM_LOW /\ bpm <= BPM_HIGH THEN Number(bpm) ELSE Dashes

\* drawBPM(), drawSignal(), drawIBI(): the text printed into the field
drawBPM(bpm)  == IF bpm > BPM_LOW /\ bpm < BPM_HIGH THEN Number(bpm) ELSE Dashes
drawSignal(s) == Number(s)
drawIBI(ibi)  == IF ibi > 0 THEN Millis(ibi) ELSE Dashes

\* faulty variant: the status record with the beat flag 0
StatusRecordNoFlag(s, bpm, ibi) == Line("%d,%d,%d,0", <<s, bpm, ibi>>)

\* setup(), loop(), checkFingerTimeout(): the lines written to Serial
SetupLine(ok)             == Line(IF ok THEN "PulseSensor initialized!"
                                        ELSE "PulseSensor FAILED!", <<>>)
StatusRecord(s, bpm, ibi) == Line("%d,%d,%d,1", <<s, bpm, ibi>>)
TimeoutLine               == Line("No finger detected - values reset", <<>>)

\* faulty variant: the previous sample read at every cursor position
ColumnReadsUnguarded(x) == {x, x - 1}

\* drawWaveformColumn(): the buffer indices it reads at cursor x
ColumnReads(x) == {x} \cup (IF x > 0 THEN {x - 1} ELSE {})

\* drawWaveformColumn(): (int)((v - minSignal) * scale) with the float
\* scale = 90 / range.  The single-precision product agrees with the exact
\* quotient after truncation unless the quotient is a whole number, where
\* rounding can leave it a hair short; far from the band the clamp that
\* follows hides any difference.  A range of 0 would make the scale
\* infinite and the conversion to int undefined: any value, of which one
\* beyond either end of the band and one inside stand for all.
Scaled(diff, range) ==
    LET num == diff * (WAVEFORM_HEIGHT - 10)
    IN  IF range <= 0
        THEN {-WAVEFORM_HEIGHT, 0, WAVEFORM_HEIGHT}
        ELSE IF num % range = 0 /\ num # 0
             THEN {TruncDiv(num, range),
                   TruncDiv(num, range) + (IF num > 0 THEN -1 ELSE 1)}
             ELSE {TruncDiv(num, range)}

\* drawWaveformColumn(): the rows y (and prevY) of a sample
PixelRows(v, lo, range) ==
    {constrain(WAVEFORM_BOTTOM - 5 - k, WAVEFORM_TOP + 2, WAVEFORM_BOTTOM - 2) :
        k \in Scaled(v - lo, range)}

\* drawWaveformColumn(): the rows painted in waveform colour, the pixels
\* y +- t and, past column 0, the lines from prevY +- t to y +- t
Rows(a, b) == Min(a, b) .. Max(a, b)
ColumnPaint(x, y, prevY) ==
    LET T == 0 .. (WAVEFORM_THICKNESS - 1)
    IN  UNION {{y + t, y - t} : t \in T}
           \cup (IF x > 0
                 THEN UNION {Rows(prevY + t, y + t) \cup Rows(prevY - t, y - t) : t \in T}
                 ELSE {})

\* drawWaveformColumn(): the rows the column erase clears
ColumnErase == (WAVEFORM_TOP + 1) .. (WAVEFORM_TOP + 1 + (WAVEFORM_HEIGHT - 2) - 1)

----------------------------------------------------------------------------
(* Standalone sketch: the tests and computations of its functions. *)

\* faulty variant: the timeout test without the presence guard
InoTimedOutUnguarded(t) == Elapsed(t, lastBeatTime) > NO_BEAT_TIMEOUT

InoRenderDue(t) == Elapsed(t, lastDrawTime) >= INO_WAVEFORM_SPEED
InoAdvance(x)   == (x + 1) % SCREEN_WIDTH
InoFlashOver(t) == beatFlashActive /\ Elapsed(t, lastBeatTime) > INO_FLASH_MS
InoLedDue(t)    == Elapsed(t, lastLedUpdate) > LED_PERIOD
InoFadeStep(b)  == Max(b - INO_FADE_STEP, 0)
InoTimedOut(t)  == fingerPresent /\ Elapsed(t, lastBeatTime) > NO_BEAT_TIMEOUT

\* faulty variant: the lower bound's drift without its clamp
InoMinUnclamped(lo, s) == (IF s < lo THEN s ELSE lo) + 1

\* loop(): widen, drift by one, clamp
InoMin(lo, s) == Min((IF s < lo THEN s ELSE lo) + 1, INO_MIN_CEIL)
InoMax(hi, s) == Max((IF s > hi THEN s ELSE hi) - 1, INO_MAX_FLOOR)

\* drawWaveformColumn(): the divisor map() scales with (the floored `range`
\* is computed and not used)
InoRange(lo, hi) == hi - lo

\* drawBPM(), drawSignal(), drawIBI(): the text drawn into the field
inoDrawBPM(bpm)  == Number(bpm)
inoDrawSignal(s) == Number(s)
inoDrawIBI(ibi)  == Millis(ibi)

\* setup(), loop(), resetDisplay(): the lines written to Serial
InoSetupLine(ok)      == Line(IF ok THEN "PulseSensor ready" ELSE "PulseSensor FAILED", <<>>)
InoBeatLine(bpm, ibi) == Line("BPM: %d | IBI: %d", <<bpm, ibi>>)
InoResetLine          == Line("Waiting for finger...", <<>>)

\* drawWaveformColumn(): the buffer indices it reads at index i
InoPrevIndex(i)   == (i - 1 + SCREEN_WIDTH) % SCREEN_WIDTH
InoColumnReads(i) == {i, InoPrevIndex(i)}

\* map(v, lo, hi, outLo, outHi) of the Arduino core: long arithmetic
InoMap(v, lo, hi, outLo, outHi) == TruncDiv((v - lo) * (outHi - outLo), hi - lo) + outLo

\* drawWaveformColumn(): the row of a sample, and the rows of the lines
\* from y1 + t to y2 + t
InoPixelRow(v, lo, hi) ==
    constrain(InoMap(v, lo, hi, WAVEFORM_BOTTOM - 5, WAVEFORM_TOP + 5),
              WAVEFORM_TOP, WAVEFORM_BOTTOM)
InoColumnPaint(y1, y2) ==
    UNION {Rows(y1 + t, y2 + t) : t \in 0 .. (INO_WAVEFORM_THICKNESS - 1)}

\* drawWaveformColumn(): the rows the column erase clears
InoColumnErase == WAVEFORM_TOP .. (WAVEFORM_TOP + WAVEFORM_HEIGHT - 1)

----------------------------------------------------------------------------
SetupDashboard ==
    /\ ledDuty = setLED(0)
    /\ shown = [BPM |-> <<0>>, Signal |-> <<0>>, IBI |-> <<0>>]
    /\ printed = [BPM |-> drawBPM(0), Signal |-> drawSignal(0), IBI |-> drawIBI(0)]
    /\ lastLine = SetupLine(sensorOk)

SetupStandalone ==
    /\ ledDuty = <<0, 0, 0>>
    /\ shown = [BPM |-> <<>>, Signal |-> <<>>, IBI |-> <<>>]
    /\ printed = [BPM |-> Blank, Signal |-> Blank, IBI |-> Blank]
    /\ lastLine = InoSetupLine(sensorOk)

Init ==
    /\ sketch \in {"dashboard", "standalone"}
    /\ feed \in Feeds
    /\ sensorOk \in BOOLEAN
    /\ loops = 0
    /\ pc = "idle"
    /\ clock = 0
    /\ now = 0
    /\ currentSignal = 0 /\ currentBPM = 0 /\ currentIBI = 0
    /\ lastDrawTime = 0 /\ lastBeatTime = 0 /\ lastLedUpdate = 0 /\ lastDecay = 0
    /\ beatFlashActive = FALSE
    /\ fingerPresent = FALSE
    /\ ledBrightness = 0
    /\ ledFadeValue = 0
    /\ IF sketch = "dashboard" THEN SetupDashboard ELSE SetupStandalone
    /\ waveformBuffer = [i \in Indices |-> CENTER]
    /\ waveformX = 0
    /\ waveformIndex = 0
    /\ minSignal = MIN_INIT
    /\ maxSignal = MAX_INIT
    /\ lastDisplayedBPM = CACHE_INIT
    /\ lastDisplayedSignal = CACHE_INIT
    /\ lastDisplayedIBI = CACHE_INIT
    /\ redrawn = {}
    /\ scaleRange = 0
    /\ writeCount = [i \in Indices |-> 0]
    /\ beat = FALSE
    /\ beatCount = 0
    /\ resetsSinceBeat = 0
    /\ records = 0
    /\ fadeTicks = 0
    /\ reads = {}
    /\ painted = {}

----------------------------------------------------------------------------
(* millis() advances by d and the next iteration of loop() starts. *)
Tick(d) ==
    /\ pc = "idle"
    /\ clock + d <= MaxTime
    /\ feed.free => loops < MaxLoops
    /\ pc' = "loop"
    /\ clock' = clock + d
    /\ loops' = loops + 1
    /\ redrawn' = {}
    /\ UNCHANGED <<run, serial, now, values, timers, beatFlashActive, fingerPresent,
                   led, wave, env, cache, display, beatLog>>

----------------------------------------------------------------------------
(* Dashboard sketch. *)

(* loop(), lines 152-177: sawStartOfBeat() is true. *)
loopBeat(s, bpm, ibi) ==
    /\ sketch = "dashboard" /\ pc = "loop"
    /\ MayBeat
    /\ pc' = "flash"
    /\ now' = clock
    /\ currentSignal' = s
    /\ currentBPM' = bpm
    /\ currentIBI' = ibi
    /\ lastBeatTime' = clock
    /\ beatFlashActive' = TRUE
    /\ fingerPresent' = TRUE
    /\ ledBrightness' = flashLED
    /\ ledDuty' = setLED(flashLED)
    /\ fadeTicks' = 0
    /\ lastDisplayedBPM' = IF Differs(bpm, lastDisplayedBPM) THEN bpm ELSE lastDisplayedBPM
    /\ lastDisplayedIBI' = IF Differs(ibi, lastDisplayedIBI) THEN ibi ELSE lastDisplayedIBI
    /\ shown' = [shown EXCEPT
                   !.BPM = IF Differs(bpm, lastDisplayedBPM) THEN <<bpm>> ELSE @,
                   !.IBI = IF Differs(ibi, lastDisplayedIBI) THEN <<ibi>> ELSE @]
    /\ printed' = [printed EXCEPT
                   !.BPM = IF Differs(bpm, lastDisplayedBPM) THEN drawBPM(bpm) ELSE @,
                   !.IBI = IF Differs(ibi, lastDisplayedIBI) THEN drawIBI(ibi) ELSE @]
    /\ redrawn' = (IF Differs(bpm, lastDisplayedBPM) THEN {"BPM"} ELSE {})
                      \cup (IF Differs(ibi, lastDisplayedIBI) THEN {"IBI"} ELSE {})
    /\ records' = records + 1
    /\ lastLine' = StatusRecord(s, bpm, ibi)
    /\ beat' = TRUE
    /\ beatCount' = beatCount + 1
    /\ resetsSinceBeat' = 0
    /\ UNCHANGED <<run, loops, clock, lastDrawTime, lastLedUpdate, lastDecay,
                   ledFadeValue, wave, env, lastDisplayedSignal>>

(* loop(), lines 152-156: sawStartOfBeat() is false. *)
loopNoBeat(s) ==
    /\ sketch = "dashboard" /\ pc = "loop"
    /\ MayNotBeat
    /\ pc' = "flash"
    /\ now' = clock
    /\ currentSignal' = s
    /\ redrawn' = {}
    /\ beat' = FALSE
    /\ UNCHANGED <<run, serial, loops, clock, currentBPM, currentIBI, timers, beatFlashActive,
                   fingerPresent, led, wave, env, cache, display, beatCount, resetsSinceBeat>>

(* faulty variant: the end of the flash also ends presence *)
loopFlashDropsPresence ==
    /\ sketch = "dashboard" /\ pc = "flash"
    /\ pc' = "led"
    /\ beatFlashActive' = IF FlashOver(now) THEN FALSE ELSE beatFlashActive
    /\ fingerPresent' = IF FlashOver(now) THEN FALSE ELSE fingerPresent
    /\ redrawn' = {}
    /\ UNCHANGED <<run, serial, loops, clock, now, values, timers, led, wave,
                   env, cache, display, beatLog>>

(* loop(), lines 179-182: the beat indicator's flash ends. *)
loopFlash ==
    /\ sketch = "dashboard" /\ pc = "flash"
    /\ pc' = "led"
    /\ beatFlashActive' = IF FlashOver(now) THEN FALSE ELSE beatFlashActive
    /\ redrawn' = {}
    /\ UNCHANGED <<run, serial, loops, clock, now, values, timers, fingerPresent, led, wave,
                   env, cache, display, beatLog>>

(* updateLED(). *)
updateLED ==
    /\ sketch = "dashboard" /\ pc = "led"
    /\ pc' = "timeout"
    /\ IF LedDue(clock)
       THEN /\ lastLedUpdate' = clock
            /\ IF ledBrightness > 0
               THEN /\ ledBrightness' = FadeStep(ledBrightness)
                    /\ ledDuty' = setLED(FadeStep(ledBrightness))
                    /\ fadeTicks' = fadeTicks + 1
               ELSE UNCHANGED <<ledBrightness, ledDuty, fadeTicks>>
       ELSE UNCHANGED <<lastLedUpdate, ledBrightness, ledDuty, fadeTicks>>
    /\ redrawn' = {}
    /\ UNCHANGED <<run, serial, loops, clock, now, values, lastDrawTime, lastBeatTime,
                   lastDecay, beatFlashActive, fingerPresent, ledFadeValue, wave, env,
                   cache, display, beatLog>>

(* checkFingerTimeout(). *)
checkFingerTimeout ==
    /\ sketch = "dashboard" /\ pc = "timeout"
    /\ pc' = "draw"
    /\ IF TimedOut(clock)
       THEN /\ fingerPresent' = FALSE
            /\ currentBPM' = 0
            /\ currentIBI' = 0
            /\ lastDisplayedBPM' = 0
            /\ lastDisplayedIBI' = 0
            /\ shown' = [shown EXCEPT
                           !.BPM = IF Differs(lastDisplayedBPM, 0) THEN <<0>> ELSE @,
                           !.IBI = IF Differs(lastDisplayedIBI, 0) THEN <<0>> ELSE @]
            /\ printed' = [printed EXCEPT
                           !.BPM = IF Differs(lastDisplayedBPM, 0) THEN drawBPM(0) ELSE @,
                           !.IBI = IF Differs(lastDisplayedIBI, 0) THEN drawIBI(0) ELSE @]
            /\ redrawn' = (IF Differs(lastDisplayedBPM, 0) THEN {"BPM"} ELSE {})
                             \cup (IF Differs(lastDisplayedIBI, 0) THEN {"IBI"} ELSE {})
            /\ lastLine' = TimeoutLine
            /\ resetsSinceBeat' = resetsSinceBeat + 1
       ELSE /\ redrawn' = {}
            /\ UNCHANGED <<fingerPresent, currentBPM, currentIBI, lastDisplayedBPM,
                           lastDisplayedIBI, display, lastLine, resetsSinceBeat>>
    /\ UNCHANGED <<run, records, loops, clock, now, currentSignal, timers, beatFlashActive, led,
                   wave, env, lastDisplayedSignal, beat, beatCount>>

(* loop(), lines 189-207: the render tick, with updateMinMax() and *)
(* drawWaveformColumn().                                            *)
loopRender ==
    /\ sketch = "dashboard" /\ pc = "draw"
    /\ pc' = "idle"
    /\ IF RenderDue(now)
       THEN LET decay == DecayDue(clock)
                lo    == UpdatedMin(minSignal, currentSignal, decay)
                hi    == UpdatedMax(maxSignal, currentSignal, decay)
                x     == Advance(waveformX)
                sig   == x % SIGNAL_EVERY = 0
                            /\ SignalChanged(currentSignal, lastDisplayedSignal)
            IN  /\ lastDrawTime' = now
                /\ waveformBuffer' = [waveformBuffer EXCEPT ![waveformX] = currentSignal]
                /\ writeCount' = [writeCount EXCEPT ![waveformX] = @ + 1]
                /\ lastDecay' = IF decay THEN clock ELSE lastDecay
                /\ minSignal' = lo
                /\ maxSignal' = hi
                /\ scaleRange' = Range(lo, hi)
                /\ reads' = ColumnReads(waveformX)
                /\ \E y \in PixelRows(currentSignal, lo, Range(lo, hi)),
                      prevY \in PixelRows(waveformBuffer[Max(waveformX - 1, 0)], lo,
                                          Range(lo, hi)) :
                       painted' = ColumnPaint(waveformX, y, prevY)
                /\ waveformX' = x
                /\ lastDisplayedSignal' = IF sig THEN currentSignal ELSE lastDisplayedSignal
                /\ shown' = [shown EXCEPT !.Signal = IF sig THEN <<currentSignal>> ELSE @]
                /\ printed' = [printed EXCEPT
                                 !.Signal = IF sig THEN drawSignal(currentSignal) ELSE @]
                /\ redrawn' = IF sig THEN {"Signal"} ELSE {}
       ELSE /\ redrawn' = {}
            /\ UNCHANGED <<lastDrawTime, waveformBuffer, writeCount, lastDecay, env,
                           scaleRange, reads, painted, waveformX, lastDisplayedSignal,
                           display>>
    /\ UNCHANGED <<run, serial, loops, clock, now, values, lastBeatTime, lastLedUpdate,
                   beatFlashActive, fingerPresent, led, waveformIndex,
                   lastDisplayedBPM, lastDisplayedIBI, beatLog>>

----------------------------------------------------------------------------
(* Standalone sketch. *)

(* loop(), lines 167-187: sawStartOfBeat() is true; drawBPM() and drawIBI() *)
(* return early on the cached value.                                       *)
inoLoopBeat(s, bpm, ibi) ==
    /\ sketch = "standalone" /\ pc = "loop"
    /\ MayBeat
    /\ pc' = "draw"
    /\ currentSignal' = s
    /\ currentBPM' = bpm
    /\ currentIBI' = ibi
    /\ lastBeatTime' = clock
    /\ fingerPresent' = TRUE
    /\ beatFlashActive' = TRUE
    /\ ledFadeValue' = LED_MAX_BRIGHTNESS
    /\ fadeTicks' = 0
    /\ lastDisplayedBPM' = bpm
    /\ lastDisplayedIBI' = ibi
    /\ shown' = [shown EXCEPT
                   !.BPM = IF Differs(bpm, lastDisplayedBPM) THEN <<bpm>> ELSE @,
                   !.IBI = IF Differs(ibi, lastDisplayedIBI) THEN <<ibi>> ELSE @]
    /\ printed' = [printed EXCEPT
                   !.BPM = IF Differs(bpm, lastDisplayedBPM) THEN inoDrawBPM(bpm) ELSE @,
                   !.IBI = IF Differs(ibi, lastDisplayedIBI) THEN inoDrawIBI(ibi) ELSE @]
    /\ redrawn' = (IF Differs(bpm, lastDisplayedBPM) THEN {"BPM"} ELSE {})
                      \cup (IF Differs(ibi, lastDisplayedIBI) THEN {"IBI"} ELSE {})
    /\ lastLine' = InoBeatLine(bpm, ibi)
    /\ beat' = TRUE
    /\ beatCount' = beatCount + 1
    /\ resetsSinceBeat' = 0
    /\ UNCHANGED <<run, records, loops, clock, now, lastDrawTime, lastLedUpdate, lastDecay,
                   ledBrightness, ledDuty, wave, env, lastDisplayedSignal>>

(* loop(), lines 167-170: sawStartOfBeat() is false. *)
inoLoopNoBeat(s) ==
    /\ sketch = "standalone" /\ pc = "loop"
    /\ MayNotBeat
    /\ pc' = "draw"
    /\ currentSignal' = s
    /\ redrawn' = {}
    /\ beat' = FALSE
    /\ UNCHANGED <<run, serial, loops, clock, now, currentBPM, currentIBI, timers,
                   beatFlashActive, fingerPresent, led, wave, env, cache, display,
                   beatCount, resetsSinceBeat>>

(* loop(), lines 190-214: the render tick, with drawWaveformColumn() and *)
(* drawSignal().                                                          *)
inoLoopRender ==
    /\ sketch = "standalone" /\ pc = "draw"
    /\ pc' = "flash"
    /\ IF InoRenderDue(clock)
       THEN LET lo == InoMin(minSignal, currentSignal)
                hi == InoMax(maxSignal, currentSignal)
            IN  /\ lastDrawTime' = clock
                /\ waveformBuffer' = [waveformBuffer EXCEPT ![waveformIndex] = currentSignal]
                /\ writeCount' = [writeCount EXCEPT ![waveformIndex] = @ + 1]
                /\ minSignal' = lo
                /\ maxSignal' = hi
                /\ scaleRange' = InoRange(lo, hi)
                /\ reads' = InoColumnReads(waveformIndex)
                /\ painted' = InoColumnPaint(
                                  InoPixelRow(waveformBuffer[InoPrevIndex(waveformIndex)],
                                              lo, hi),
                                  InoPixelRow(currentSignal, lo, hi))
                /\ waveformIndex' = InoAdvance(waveformIndex)
                /\ lastDisplayedSignal' = currentSignal
                /\ shown' = [shown EXCEPT
                               !.Signal = IF Differs(currentSignal, lastDisplayedSignal)
                                          THEN <<currentSignal>> ELSE @]
                /\ printed' = [printed EXCEPT
                                 !.Signal = IF Differs(currentSignal, lastDisplayedSignal)
                                            THEN inoDrawSignal(currentSignal) ELSE @]
                /\ redrawn' = IF Differs(currentSignal, lastDisplayedSignal)
                              THEN {"Signal"} ELSE {}
       ELSE /\ redrawn' = {}
            /\ UNCHANGED <<lastDrawTime, waveformBuffer, writeCount, env, scaleRange,
                           reads, painted, waveformIndex, lastDisplayedSignal, display>>
    /\ UNCHANGED <<run, serial, loops, clock, now, values, lastBeatTime, lastLedUpdate,
                   lastDecay, beatFlashActive, fingerPresent, led, waveformX,
                   lastDisplayedBPM, lastDisplayedIBI, beatLog>>

(* loop(), lines 217-220: the heart's flash ends. *)
inoLoopFlash ==
    /\ sketch = "standalone" /\ pc = "flash"
    /\ pc' = "led"
    /\ beatFlashActive' = IF InoFlashOver(clock) THEN FALSE ELSE beatFlashActive
    /\ redrawn' = {}
    /\ UNCHANGED <<run, serial, loops, clock, now, values, timers, fingerPresent, led, wave,
                   env, cache, display, beatLog>>

(* updateRgbLed(). *)
updateRgbLed ==
    /\ sketch = "standalone" /\ pc = "led"
    /\ pc' = "timeout"
    /\ IF ledFadeValue > 0 /\ InoLedDue(clock)
       THEN /\ lastLedUpdate' = clock
            /\ ledFadeValue' = InoFadeStep(ledFadeValue)
            /\ ledDuty' = [ledDuty EXCEPT ![1] = InoFadeStep(ledFadeValue)]
            /\ fadeTicks' = fadeTicks + 1
       ELSE UNCHANGED <<lastLedUpdate, ledFadeValue, ledDuty, fadeTicks>>
    /\ redrawn' = {}
    /\ UNCHANGED <<run, serial, loops, clock, now, values, lastDrawTime, lastBeatTime,
                   lastDecay, beatFlashActive, fingerPresent, ledBrightness, wave, env,
                   cache, display, beatLog>>

(* checkFingerTimeout() and resetDisplay(). *)
inoCheckFingerTimeout ==
    /\ sketch = "standalone" /\ pc = "timeout"
    /\ pc' = "idle"
    /\ IF InoTimedOut(clock)
       THEN /\ fingerPresent' = FALSE
            /\ lastDisplayedBPM' = CACHE_INIT
            /\ lastDisplayedSignal' = CACHE_INIT
            /\ lastDisplayedIBI' = CACHE_INIT
            /\ shown' = [shown EXCEPT !.BPM = <<>>, !.IBI = <<>>]
            /\ printed' = [printed EXCEPT !.BPM = Prompt, !.IBI = Blank]
            /\ minSignal' = INO_MIN_CEIL
            /\ maxSignal' = INO_MAX_FLOOR
            /\ lastLine' = InoResetLine
            /\ resetsSinceBeat' = resetsSinceBeat + 1
       ELSE UNCHANGED <<fingerPresent, cache, display, env, lastLine, resetsSinceBeat>>
    /\ redrawn' = {}
    /\ UNCHANGED <<run, records, loops, clock, now, values, timers, beatFlashActive, led, wave,
                   beat, beatCount>>

----------------------------------------------------------------------------
Next ==
    \/ \E d \in feed.delays : Tick(d)
    \/ \E s \in SamplesNow, b \in feed.events : loopBeat(s, b[1], b[2])
    \/ \E s \in SamplesNow : loopNoBeat(s)
    \/ loopFlash
    \/ updateLED
    \/ checkFingerTimeout
    \/ loopRender
    \/ \E s \in SamplesNow, b \in feed.events : inoLoopBeat(s, b[1], b[2])
    \/ \E s \in SamplesNow : inoLoopNoBeat(s)
    \/ inoLoopRender
    \/ inoLoopFlash
    \/ updateRgbLed
    \/ inoCheckFingerTimeout

Spec == Init /\ [][Next]_vars

(* The Arduino core calls loop() again and again and an iteration runs to  *)
(* its end, so a step that can be taken is taken: the runs under a         *)
(* settling feed, which go on until millis() reaches MaxTime.              *)
LiveInit == Init /\ feed \in SettlingFeeds
LiveSpec == LiveInit /\ [][Next]_vars /\ WF_vars(Next)

----------------------------------------------------------------------------
(* Vocabulary of the properties. *)

Cursor     == IF sketch = "dashboard" THEN waveformX ELSE waveformIndex
Brightness == IF sketch = "dashboard" THEN ledBrightness ELSE ledFadeValue
Rendered   == writeCount[0] > 0
Span       == maxSignal - minSignal

\* the step that handles a beat event; the step that runs the timeout check;
\* a render tick (the step that stores a sample)
BeatStep   == pc = "loop" /\ beat'
CheckStep  == pc = "timeout" /\ pc' # "timeout"
RenderStep == writeCount' # writeCount

\* under a stream feed every RenderEvery-th iteration of loop() is a render
\* tick, and StreamAt(k) is the sample of iteration k
RenderEvery ==
    LET d      == CHOOSE x \in feed.delays : TRUE
        period == IF sketch = "dashboard" THEN WAVEFORM_SPEED ELSE INO_WAVEFORM_SPEED
    IN  (period + d - 1) \div d
StreamAt(k) ==
    IF Settled(k) THEN CHOOSE c \in feed.samples : TRUE
    ELSE feed.stream[(k % Len(feed.stream)) + 1]

\* what the passes of the cursor have written: an index before the cursor
\* once more than the last index, every other index as often
WritesOfPasses ==
    LET last == writeCount[SCREEN_WIDTH - 1]
        c    == Cursor
    IN  [i \in Indices |-> IF i < c THEN last + 1 ELSE last]

\* what the buffer holds under a stream feed: the initial fill where nothing
\* was written, elsewhere the sample of the iteration that wrote last
StreamInBuffer ==
    LET every == RenderEvery
    IN  [i \in Indices |->
            IF writeCount[i] = 0 THEN CENTER
            ELSE StreamAt(every * (SCREEN_WIDTH * (writeCount[i] - 1) + i + 1))]

BufferAsWritten ==
    /\ writeCount = WritesOfPasses
    /\ ~feed.free => waveformBuffer = StreamInBuffer
    /\ feed.free =>
          \A i \in Indices :
              waveformBuffer[i] \in (IF writeCount[i] = 0 THEN {CENTER} ELSE feed.samples)

----------------------------------------------------------------------------
(* C1. Dashboard: a timeout check that finds presence InputPresent and     *)
(* more than NO_BEAT_TIMEOUT ms since the last beat sets presence to       *)
(* NoInput and BPM and IBI, current and cached, to 0; it happens once per  *)
(* beat: a check that finds NoInput changes and draws nothing.             *)
C1_TimeoutResetsOnce ==
    [][sketch = "dashboard" =>
        /\ resetsSinceBeat' <= 1
        /\ (CheckStep /\ fingerPresent
                /\ Elapsed(clock, lastBeatTime) > NO_BEAT_TIMEOUT)
             => /\ ~fingerPresent'
                /\ currentBPM' = 0 /\ currentIBI' = 0
                /\ lastDisplayedBPM' = 0 /\ lastDisplayedIBI' = 0
                /\ shown'.BPM = <<0>> /\ shown'.IBI = <<0>>
                /\ resetsSinceBeat' = 1
        /\ (CheckStep /\ ~fingerPresent)
             => /\ UNCHANGED <<fingerPresent, currentBPM, currentIBI, cache, shown,
                               resetsSinceBeat>>
                /\ redrawn' = {}
    ]_vars

\* after the reset (which drew the IBI field) a later check has drawn nothing
C1_Witness ==
    /\ sketch = "dashboard" /\ pc = "draw"
    /\ beatCount > 0 /\ ~fingerPresent /\ resetsSinceBeat = 1
    /\ currentBPM = 0 /\ lastDisplayedIBI = 0
    /\ redrawn = {}

(* C2. Presence changes from InputPresent to NoInput only in a timeout     *)
(* check that finds strictly more than NO_BEAT_TIMEOUT ms elapsed since    *)
(* the last beat event.                                                    *)
C2_NoEarlyTimeout ==
    [][(fingerPresent /\ ~fingerPresent')
          => (CheckStep /\ Elapsed(clock, lastBeatTime) > NO_BEAT_TIMEOUT)]_vars

\* a check has run at exactly NO_BEAT_TIMEOUT ms and presence is still there
C2_Witness ==
    /\ pc = "idle" /\ loops > 0
    /\ fingerPresent
    /\ Elapsed(clock, lastBeatTime) = NO_BEAT_TIMEOUT

(* C3. Handling a beat event, from either presence state, sets presence to *)
(* InputPresent, lastBeatTime to the current time and the LED brightness   *)
(* to the maximum, redraws BPM and IBI with the reported values exactly    *)
(* when they differ from the cached ones, and leaves the caches equal to   *)
(* the reported values.                                                    *)
C3_BeatHandling ==
    [][BeatStep =>
        /\ fingerPresent'
        /\ lastBeatTime' = clock
        /\ Brightness' = LED_MAX_BRIGHTNESS
        /\ sketch = "dashboard" => ledDuty' = <<0, 255, 255>>
        /\ lastDisplayedBPM' = currentBPM'
        /\ lastDisplayedIBI' = currentIBI'
        /\ ("BPM" \in redrawn') <=> (currentBPM' # lastDisplayedBPM)
        /\ ("IBI" \in redrawn') <=> (currentIBI' # lastDisplayedIBI)
        /\ ("BPM" \in redrawn') => shown'.BPM = <<currentBPM'>>
        /\ ("IBI" \in redrawn') => shown'.IBI = <<currentIBI'>>
    ]_vars

\* the beat bpm=72, ibi=833 handled after a timeout had reset the fields
C3_Witness ==
    /\ sketch = "dashboard" /\ pc = "flash" /\ beat
    /\ beatCount = 2
    /\ currentBPM = 72 /\ currentIBI = 833
    /\ redrawn = {"BPM", "IBI"}
    /\ fingerPresent /\ ledBrightness = LED_MAX_BRIGHTNESS

(* C4. After every envelope update the divisor the renderer scales with is *)
(* at least MIN_RANGE: in the dashboard it is the span maxSignal-minSignal *)
(* or, when that is smaller, the floor MIN_RANGE.                          *)
C4_RangeFloor ==
    Rendered =>
        /\ scaleRange >= MIN_RANGE
        /\ sketch = "dashboard" =>
              scaleRange = (IF Span < MIN_RANGE THEN MIN_RANGE ELSE Span)

\* the natural span is below the floor and the floor was substituted
C4_Witness ==
    /\ sketch = "dashboard" /\ Rendered
    /\ Span < MIN_RANGE
    /\ scaleRange = MIN_RANGE

(* C5 as stated: minSignal <= maxSignal in every reachable state, the      *)
(* initial state included.                                                 *)
C5_Original == minSignal <= maxSignal

(* C5, amended. Once the first sample has been incorporated (from the      *)
(* first render tick on), minSignal <= maxSignal, also after a presence    *)
(* timeout; before that the bounds hold their initial 4095 and 0.          *)
C5_EnvelopeOrdered ==
    /\ Rendered => minSignal <= maxSignal
    /\ ~Rendered => (minSignal = MIN_INIT /\ maxSignal = MAX_INIT)

\* samples were incorporated and a presence timeout has reset the envelope
C5_Witness ==
    /\ sketch = "standalone" /\ Rendered
    /\ resetsSinceBeat = 1
    /\ minSignal = INO_MIN_CEIL /\ maxSignal = INO_MAX_FLOOR

(* C6. Only the step that handles a beat event raises the LED brightness,  *)
(* and it sets it to the maximum; every other step leaves it or lowers it. *)
C6_LedNonIncreasing ==
    [][IF BeatStep THEN Brightness' = LED_MAX_BRIGHTNESS
                   ELSE Brightness' <= Brightness]_vars

\* a decay step has lowered the brightness a beat had set
C6_Witness ==
    /\ sketch = "dashboard"
    /\ ledBrightness = LED_MAX_BRIGHTNESS - LED_FADE_SPEED
    /\ ledDuty[1] = LED_FADE_SPEED

C8_CursorAdvance ==
    [][/\ Cursor' \in Indices
       /\ (Cursor' # Cursor) => (pc = "draw" /\ RenderStep)
       /\ RenderStep => Cursor' = (IF Cursor = SCREEN_WIDTH - 1 THEN 0 ELSE Cursor + 1)
       /\ (pc = "draw") =>
            (RenderStep <=> IF sketch = "dashboard"
                            THEN Elapsed(now, lastDrawTime) >= WAVEFORM_SPEED
                            ELSE Elapsed(clock, lastDrawTime) >= INO_WAVEFORM_SPEED)
    ]_vars

\* the cursor has just wrapped from the last index to 0
C8_Witness ==
    /\ Cursor = 0
    /\ writeCount[SCREEN_WIDTH - 1] = 1
    /\ pc \in {"idle", "flash"}

(* C9. Every pass of the cursor writes every index exactly once: an index  *)
(* before the cursor has been written once more than the last index, every *)
(* other index as often; a render tick stores the current sample at the    *)
(* cursor's index and nowhere else; an index never written holds the       *)
(* initial fill and a written one the sample of its render tick.           *)
C9_OneWritePerPass ==
    [][IF RenderStep
       THEN /\ waveformBuffer' = [waveformBuffer EXCEPT ![Cursor] = currentSignal]
            /\ BufferAsWritten'
       ELSE UNCHANGED <<waveformBuffer, writeCount, waveformX, waveformIndex>>
    ]_vars

\* 320 render ticks have passed: no index holds the initial fill
C9_Witness ==
    /\ feed = FeedOsc
    /\ Cursor = 0
    /\ \A i \in Indices : writeCount[i] = 1 /\ waveformBuffer[i] \in {1900, 2100}
    /\ waveformBuffer[0] # waveformBuffer[1]

(* C10. While no beat event has occurred since start-up, whether or not    *)
(* the sensor initialised, presence is NoInput, no timeout reset has       *)
(* fired, and BPM and IBI are 0.                                           *)
C10_NoBeatNoInput ==
    beatCount = 0 =>
        /\ ~fingerPresent
        /\ resetsSinceBeat = 0
        /\ currentBPM = 0 /\ currentIBI = 0
        /\ lastDisplayedBPM = CACHE_INIT /\ lastDisplayedIBI = CACHE_INIT

\* 5 s of samples oscillating between 1900 and 2100 after a failed sensor
\* initialisation: the buffer is full and presence is still NoInput
C10_Witness ==
    /\ ~sensorOk /\ feed = FeedOsc
    /\ beatCount = 0
    /\ clock >= NO_BEAT_TIMEOUT + 2000
    /\ pc = "idle"
    /\ writeCount[SCREEN_WIDTH - 1] > 0
    /\ ~fingerPresent

(* C11. Dashboard: the BPM field shows the number only for a value above   *)
(* BPM_LOW and below BPM_HIGH and "--" for every other value, the reset    *)
(* value 0 included; a beat reporting such a value is handled like any     *)
(* other beat and the iteration goes on.                                   *)
C11_ImplausibleBpm ==
    [][sketch = "dashboard" =>
        /\ LET v == shown'.BPM[1]
           IN  printed'.BPM = (IF v > 30 /\ v < 220
                               THEN [kind |-> "number", value |-> v]
                               ELSE [kind |-> "--", value |-> 0])
        /\ BeatStep =>
              /\ pc' = "flash"
              /\ fingerPresent'
              /\ lastDisplayedBPM' = currentBPM'
              /\ shown'.BPM = <<currentBPM'>>
    ]_vars

\* a beat has reported 220: the field shows "--" and the loop has gone on
C11_Witness ==
    /\ sketch = "dashboard" /\ pc = "idle" /\ loops >= 2
    /\ currentBPM = BPM_HIGH /\ lastDisplayedBPM = BPM_HIGH
    /\ printed.BPM = Dashes
    /\ fingerPresent

(* C12. Dashboard: the step that handles a beat event writes one status    *)
(* record signal,bpm,ibi,1 with the iteration's sample, BPM and IBI; no    *)
(* other step writes a status record; the records written so far are as    *)
(* many as the beats handled so far.                                       *)
C12_RecordPerBeat ==
    [][sketch = "dashboard" =>
        /\ IF BeatStep
           THEN /\ records' = records + 1
                /\ lastLine' = [format |-> "%d,%d,%d,1",
                                args |-> <<currentSignal', currentBPM', currentIBI'>>]
           ELSE /\ records' = records
                /\ (lastLine' # lastLine) => lastLine'.format # "%d,%d,%d,1"
        /\ records' = beatCount'
    ]_vars

\* two beats, two records, the second 1900,72,833,1
C12_Witness ==
    /\ sketch = "dashboard" /\ pc = "flash"
    /\ beatCount = 2 /\ records = 2
    /\ lastLine = StatusRecord(1900, 72, 833)

\* a step that runs the envelope decay of updateMinMax()
DecayStep == sketch = "dashboard" /\ lastDecay' # lastDecay

(* C13. Dashboard: a decay step moves minSignal up and maxSignal down by   *)
(* DECAY_STEP, each clamped at CENTER (the widening by the current sample  *)
(* follows in the same update); after the first decay step minSignal <=    *)
(* CENTER <= maxSignal in every state.                                     *)
C13_DecayClamped ==
    [][sketch = "dashboard" =>
        /\ DecayStep =>
              /\ minSignal' = Min(Min(minSignal + 5, 2048), currentSignal)
              /\ maxSignal' = Max(Max(maxSignal - 5, 2048), currentSignal)
        /\ (lastDecay' > 0) => (minSignal' <= 2048 /\ 2048 <= maxSignal')
    ]_vars

\* the lower bound, 2040 after the first sample, has been moved up twice and
\* stopped at the centre
C13_Witness ==
    /\ sketch = "dashboard" /\ pc = "idle"
    /\ lastDecay > 0
    /\ waveformBuffer[0] = 2040 /\ waveformX >= 3
    /\ minSignal = CENTER /\ maxSignal = 4095

(* C14. fingerPresent changes only in the step that handles a beat event   *)
(* or in the timeout check, lastBeatTime only in the step that handles a   *)
(* beat event; the flash timeout, the LED fade and the render tick with    *)
(* its envelope update leave both as they are.                             *)
C14_PresenceFrame ==
    [][/\ (fingerPresent' # fingerPresent) => (BeatStep \/ CheckStep)
       /\ (lastBeatTime' # lastBeatTime) => BeatStep
       /\ (pc \in {"flash", "led", "draw"}) => UNCHANGED <<fingerPresent, lastBeatTime>>
    ]_vars

\* presence has outlived the flash timeout, LED fade steps and render ticks
C14_Witness ==
    /\ pc = "idle" /\ fingerPresent /\ lastBeatTime > 0
    /\ ~beatFlashActive
    /\ fadeTicks > 0
    /\ writeCount[SCREEN_WIDTH - 1] > 0

(* C15 as stated: the cached value of each field is the value drawn into   *)
(* the field last, in every state after start-up.                          *)
C15_Original ==
    /\ shown.BPM = <<lastDisplayedBPM>>
    /\ shown.Signal = <<lastDisplayedSignal>>
    /\ shown.IBI = <<lastDisplayedIBI>>

\* the cached value of a field; the step is the standalone display reset
Cached(f) ==
    IF f = "BPM" THEN lastDisplayedBPM
    ELSE IF f = "Signal" THEN lastDisplayedSignal ELSE lastDisplayedIBI
ResetStep == sketch = "standalone" /\ CheckStep /\ resetsSinceBeat' # resetsSinceBeat

(* C15, amended. The cache of a field either holds -1 (from start-up on,   *)
(* where the dashboard's setup() has drawn 0 into the field without        *)
(* caching it, or from a standalone display reset on) or equals the value  *)
(* drawn into the field last.  A draw made by loop() or by the timeout     *)
(* check comes with the cache update, and the cache changes only together  *)
(* with a draw, except that the standalone reset sets it to -1.            *)
C15_CacheTracksDraws ==
    [][\A f \in {"BPM", "Signal", "IBI"} :
          /\ Cached(f)' = -1 \/ shown'[f] = <<Cached(f)'>>
          /\ (f \in redrawn') => shown'[f] = <<Cached(f)'>>
          /\ (Cached(f)' # Cached(f)) =>
                 (f \in redrawn' \/ (ResetStep /\ Cached(f)' = -1))
    ]_vars

\* a beat has been drawn and cached while the signal field still shows the
\* 0 of setup() over a cache of -1
C15_Witness ==
    /\ sketch = "dashboard" /\ pc = "idle"
    /\ lastDisplayedBPM = 72 /\ shown.BPM = <<72>>
    /\ lastDisplayedSignal = -1 /\ shown.Signal = <<0>>
    /\ Rendered

\* a step in which the LED period test of updateLED()/updateRgbLed() passes
LedStep == lastLedUpdate' # lastLedUpdate

(* C16. A render tick, an LED fade step and an envelope decay step happen  *)
(* only when at least the interval has passed since the same action last   *)
(* fired, and firing records the current time, so none fires twice in an   *)
(* iteration; however late, one firing moves the cursor by one column and  *)
(* lowers the brightness by one fade step.                                 *)
C16_TimersCoalesce ==
    [][/\ RenderStep =>
            /\ pc = "draw"
            /\ clock - lastDrawTime >= (IF sketch = "dashboard" THEN 5 ELSE 20)
            /\ lastDrawTime' = clock
            /\ Cursor' = (Cursor + 1) % 320
       /\ (lastDrawTime' # lastDrawTime) => RenderStep
       /\ LedStep =>
            /\ pc = "led"
            /\ clock - lastLedUpdate >= 10
            /\ lastLedUpdate' = clock
       /\ (Brightness' < Brightness) =>
            /\ LedStep
            /\ Brightness' = Max(Brightness - (IF sketch = "dashboard" THEN 4 ELSE 8), 0)
       /\ DecayStep =>
            /\ RenderStep
            /\ clock - lastDecay >= 100
            /\ lastDecay' = clock
            /\ minSignal' <= minSignal + 5
            /\ maxSignal' >= maxSignal - 5
    ]_vars

\* an iteration 3000 ms late: one column, one fade step, one decay step
C16_Witness ==
    /\ sketch = "dashboard" /\ pc = "idle"
    /\ loops = 2 /\ clock = 3001
    /\ lastDrawTime = 3001 /\ waveformX = 1
    /\ lastLedUpdate = 3001 /\ ledBrightness = LED_MAX_BRIGHTNESS - LED_FADE_SPEED
    /\ lastDecay = 3001

(* C17. Dashboard: the brightness is within 0..LED_MAX_BRIGHTNESS, the     *)
(* duty last written to the red channel is 255 - brightness, and green and *)
(* blue are at duty 255, in every state.                                   *)
C17_DutyFollowsBrightness ==
    sketch = "dashboard" =>
        /\ ledBrightness \in 0 .. 255
        /\ ledDuty = <<255 - ledBrightness, 255, 255>>

\* the last fade step before the floor: brightness 3, red duty 252
C17_Witness ==
    /\ sketch = "dashboard"
    /\ ledBrightness = 3
    /\ ledDuty = <<252, 255, 255>>

(* C18. Dashboard: after a beat event has set the brightness to 255, the   *)
(* n-th fade step since (each at least LED_PERIOD ms after the LED period  *)
(* last elapsed) leaves 255 - 4n floored at 0, so the 64th leaves 0 and    *)
(* none before it; the brightness is never below 0 and, once 0, stays 0    *)
(* until the next beat event.                                              *)
C18_FadeToZero ==
    [][sketch = "dashboard" =>
        /\ ledBrightness' >= 0
        /\ (beatCount' = 0) => ledBrightness' = 0
        /\ (beatCount' > 0) =>
              /\ ledBrightness' = Max(255 - 4 * fadeTicks', 0)
              /\ (ledBrightness' = 0) <=> (fadeTicks' = 64)
        /\ (fadeTicks' = fadeTicks + 1) => clock - lastLedUpdate >= 10
        /\ (ledBrightness = 0 /\ ~BeatStep) => ledBrightness' = 0
    ]_vars

\* 64 fade steps after the beat the brightness is 0, and it has stayed 0
C18_Witness ==
    /\ sketch = "dashboard" /\ pc = "idle"
    /\ beatCount = 1 /\ fadeTicks = 64
    /\ ledBrightness = 0
    /\ clock >= lastBeatTime + 1000

(* C19. Every read and write of the waveform buffer is at an index in      *)
(* 0..SCREEN_WIDTH-1: a render tick writes at the cursor; the dashboard    *)
(* renderer reads the cursor's cell and, only past cursor 0, the cell      *)
(* before it; the standalone renderer reads the cursor's cell and the cell *)
(* before it, which at cursor 0 is the last cell.                          *)
C19_IndicesInBounds ==
    [][/\ reads' \subseteq 0 .. 319
       /\ DOMAIN waveformBuffer' = 0 .. 319
       /\ RenderStep =>
            /\ Cursor \in 0 .. 319
            /\ waveformBuffer'[Cursor] = currentSignal
            /\ reads' = IF sketch = "dashboard"
                        THEN (IF Cursor > 0 THEN {Cursor - 1, Cursor} ELSE {0})
                        ELSE {IF Cursor = 0 THEN 319 ELSE Cursor - 1, Cursor}
    ]_vars

\* the standalone renderer at cursor 0 of the second pass has read cell 319
C19_Witness ==
    /\ sketch = "standalone"
    /\ writeCount[0] = 2 /\ waveformIndex = 1
    /\ reads = {0, SCREEN_WIDTH - 1}

(* C20 as stated. Dashboard: every row painted in waveform colour for a    *)
(* column lies within the band WAVEFORM_TOP..WAVEFORM_BOTTOM and within    *)
(* the rows the column erase clears.                                       *)
C20_PaintInBand ==
    sketch = "dashboard" =>
        /\ painted \subseteq WAVEFORM_TOP .. WAVEFORM_BOTTOM
        /\ painted \subseteq (WAVEFORM_TOP + 1) .. (WAVEFORM_BOTTOM - 2)

\* a row painted below the rows the column erase clears
C20_Witness ==
    /\ sketch = "dashboard"
    /\ \E row \in painted : row > WAVEFORM_BOTTOM - 2

\* the sample a settling feed ends in, and the envelope at rest on it
LastSample == CHOOSE c \in feed.samples : TRUE
AtRest ==
    /\ minSignal = (IF LastSample < 2048 THEN LastSample ELSE 2048)
    /\ maxSignal = (IF LastSample > 2048 THEN LastSample ELSE 2048)

(* C21. Dashboard: when, after samples that drove the bounds to 1800 and   *)
(* 2300, every sample equals a constant c and the render ticks go on, the  *)
(* envelope reaches minSignal = min(c, 2048) and maxSignal = max(c, 2048)  *)
(* and stays there: eventually it is at rest for good, and no step of the  *)
(* constant phase takes it from rest.                                      *)
C21_EnvelopeConverges ==
    /\ (sketch = "dashboard") => <>[]AtRest
    /\ [][(sketch = "dashboard" /\ Settled(loops) /\ currentSignal = LastSample
             /\ AtRest) => AtRest']_vars

\* at rest on c = 2100 above the centre, a second before the run ends, after
\* the bounds had been at 1800 and 2300
C21_Witness ==
    /\ sketch = "dashboard" /\ feed = FeedSettleHigh
    /\ pc = "idle" /\ clock <= MaxTime - 1000
    /\ minSignal = CENTER /\ maxSignal = 2100
    /\ currentSignal = 2100

(* C22. Dashboard: every render tick leaves the sample it stored at the    *)
(* cursor inside the envelope, minSignal <= currentSignal <= maxSignal,    *)
(* whether or not the update contracted the bounds first; so the sample's  *)
(* offset from minSignal that the column is scaled from lies between 0 and *)
(* the divisor.                                                            *)
C22_SampleInEnvelope ==
    [][(sketch = "dashboard" /\ RenderStep) =>
          /\ waveformBuffer'[waveformX] = currentSignal
          /\ minSignal' <= currentSignal /\ currentSignal <= maxSignal'
          /\ currentSignal - minSignal' \in 0 .. scaleRange'
    ]_vars

\* a render tick whose decay step raised minSignal from 1900 to 1905, above
\* the sample 1900, and whose widening brought it back to the sample
C22_Witness ==
    /\ sketch = "dashboard" /\ feed = FeedOsc
    /\ pc = "idle" /\ clock = 210 /\ lastDecay = 210
    /\ currentSignal = 1900 /\ waveformBuffer[41] = 1900
    /\ minSignal = 1900 /\ maxSignal = 2095

(* C23. Standalone: every render tick leaves minSignal <= 1800 and         *)
(* maxSignal >= 2200 and drawWaveformColumn scales with the divisor        *)
(* maxSignal - minSignal, which is at least 400; a display reset sets the  *)
(* bounds to 1800 and 2200; so from the first render tick on the bounds    *)
(* are at least 400 apart in every state.                                  *)
C23_InoDivisorFloor ==
    [][sketch = "standalone" =>
        /\ RenderStep =>
              /\ minSignal' <= 1800 /\ maxSignal' >= 2200
              /\ scaleRange' = maxSignal' - minSignal'
              /\ scaleRange' >= 400
        /\ ResetStep => (minSignal' = 1800 /\ maxSignal' = 2200)
        /\ Rendered' => (minSignal' <= 1800 /\ maxSignal' >= 2200)
    ]_vars

\* samples between 1900 and 2100 only: the bounds sit on their clamps and
\* the column was scaled with the divisor 400
C23_Witness ==
    /\ sketch = "standalone" /\ feed = FeedOsc
    /\ writeCount[SCREEN_WIDTH - 1] > 0
    /\ minSignal = INO_MIN_CEIL /\ maxSignal = INO_MAX_FLOOR
    /\ scaleRange = 400
====
